---- MODULE Spec2Model ----
(***************************************************************************)
(* Model of the Indonesian IGT spatial pipeline:                           *)
(*   src/3.1_spatial_query_analysis.py  analyze_polygonal_overlap,         *)
(*                                      perform_spatial_query              *)
(*   src/3.2_map_service_compar.py      compare_with_google_maps           *)
(*   src/main_igt_spatial_pipeline.py   main_execution_pipeline            *)
(*                                                                         *)
(* Geometries are the two shapes the repository builds (shapely box() and  *)
(* Point(), main_igt_spatial_pipeline.py:24-27,43-46) on an integer grid   *)
(* of metres.  A GeoDataFrame is a record [crs, rows]; rows is the ordered *)
(* sequence of its records.  Every run is one call: Init draws the         *)
(* function and its arguments, the actions execute the function's code.    *)
(***************************************************************************)
EXTENDS Integers, Sequences, FiniteSets, TLC

VARIABLES
    fn,                 \* the function this run calls
    pc,                 \* position of the call
    gdf,                \* perform_spatial_query: the GeoDataFrame argument (the caller's object)
    target_geometry,    \* perform_spatial_query: target geometry
    operation,          \* perform_spatial_query: predicate selector
    gdf_admin,          \* analyze_polygonal_overlap: the caller's admin GeoDataFrame
    gdf_land_use,       \* analyze_polygonal_overlap: the caller's land-use GeoDataFrame
    your_data_geometry, \* compare_with_google_maps: authoritative geometry A
    response,           \* compare_with_google_maps: what the geocoding request yields
    config_arg,         \* main_execution_pipeline: the caller's config dict
    config,             \* main_execution_pipeline: the local name `config` (line 107)
    data,               \* main_execution_pipeline: provinces_gdf, land_use_gdf once loaded
    phases,             \* main_execution_pipeline: the phases entered, in order
    log,                \* main_execution_pipeline: the records written to the logger
    exc,                \* main_execution_pipeline: the exception in flight
    module_name,        \* run_specific_module: the name to dispatch on
    kwargs,             \* run_specific_module, run_spatial_analysis: the keyword arguments
    result              \* outcome of the call: returned value or raised error

analytic_vars == <<gdf, target_geometry, operation, gdf_admin, gdf_land_use,
                   your_data_geometry, response>>
pipeline_vars == <<config_arg, config, data, phases, log, exc>>
dispatch_vars == <<module_name, kwargs>>
vars == <<fn, pc, analytic_vars, pipeline_vars, dispatch_vars, result>>

----------------------------------------------------------------------------
(* Bounds of the model *)

\* largest number of rows of a feature layer (gdf, gdf_land_use)
MaxFeat == 2
\* largest number of rows of gdf_admin
MaxAdmin == 2

\* grid coordinates (metres) the geometries are drawn from
XS == {0, 500, 1000}

----------------------------------------------------------------------------
(* Geometry: shapely box / Point and the operations the code calls *)

Min(a, b) == IF a <= b THEN a ELSE b
Max(a, b) == IF a >= b THEN a ELSE b

\* shapely.geometry.box(minx, miny, maxx, maxy)
box(minx, miny, maxx, maxy) ==
    [type |-> "Polygon", x1 |-> minx, y1 |-> miny, x2 |-> maxx, y2 |-> maxy]

\* shapely.geometry.Point(x, y)
Point(x, y) ==
    [type |-> "Point", x1 |-> x, y1 |-> y, x2 |-> x, y2 |-> y]

\* the polygons of the model: non-degenerate boxes over the grid
Boxes == {box(p[1], 0, p[2], 1000) : p \in {q \in XS \X XS : q[1] < q[2]}}
\* the points of the model: on the grid lines, so on an edge of some box and
\* inside or outside others
Points == {Point(a, 500) : a \in XS}
Geoms == Boxes \cup Points
\* the geometries of feature rows: the boxes anchored at the origin (50 ha
\* and 100 ha), a point strictly inside them and a point on the middle line
FeatureGeoms == {b \in Boxes : b.x1 = 0} \cup {Point(250, 500), Point(500, 500)}

\* geometry.area: a point has no area
Area(g) == (g.x2 - g.x1) * (g.y2 - g.y1)

\* a.intersects(b): the closed shapes share at least one point
Intersects(a, b) ==
    /\ Max(a.x1, b.x1) <= Min(a.x2, b.x2)
    /\ Max(a.y1, b.y1) <= Min(a.y2, b.y2)

\* a.within(b): no point of a outside b, and the interiors share a point
Within(a, b) ==
    /\ b.x1 <= a.x1 /\ a.x2 <= b.x2
    /\ b.y1 <= a.y1 /\ a.y2 <= b.y2
    /\ (a.type = "Point" /\ b.type = "Polygon") =>
          (b.x1 < a.x1 /\ a.x1 < b.x2 /\ b.y1 < a.y1 /\ a.y1 < b.y2)

\* a.contains(b) is b.within(a)
Contains(a, b) == Within(b, a)

\* a.intersection(b).area
IntersectionArea(a, b) ==
    Max(0, Min(a.x2, b.x2) - Max(a.x1, b.x1)) * Max(0, Min(a.y2, b.y2) - Max(a.y1, b.y1))

\* a.union(b).area
UnionArea(a, b) == Area(a) + Area(b) - IntersectionArea(a, b)

----------------------------------------------------------------------------
(* Outcomes of a call *)

NoResult == [kind |-> "none"]
Return(v) == [kind |-> "return", value |-> v]
Raise(t, a) == [kind |-> "raise", error |-> [type |-> t, arg |-> a]]

----------------------------------------------------------------------------
(* GeoDataFrames *)

CRSs == {"EPSG:4326", "EPSG:32748"}
\* sample values of the attribute columns (create_sample_data)
ProvinceNames == {"DKI Jakarta", "Jawa Barat"}
LanduseTypes == {"Forest", "Urban"}
AreaAttrs == {20}

SeqsUpTo(S, n) == UNION {[1..k -> S] : k \in 0..n}

LandUseRows == [landuse_type : LanduseTypes, area_ha : AreaAttrs, geometry : FeatureGeoms]
AdminRows == [province_name : ProvinceNames, geometry : Boxes]

FeatureLayers == [crs : CRSs, rows : SeqsUpTo(LandUseRows, MaxFeat)]
\* region layers are normalised to WGS84 on ingestion (2.1_data_ingest_geodata.py:11-14)
AdminLayers == [crs : {"EPSG:4326"}, rows : SeqsUpTo(AdminRows, MaxAdmin)]

NoGdf == [crs |-> "EPSG:4326", rows |-> <<>>]
NoGeom == Point(0, 0)
NoResponse == [kind |-> "none", status |-> "", geometry |-> NoGeom]

----------------------------------------------------------------------------
(* src/3.1_spatial_query_analysis.py: perform_spatial_query *)

Predicates == {"intersects", "within", "contains"}
Operations == Predicates \cup {"touches", "INTERSECTS"}

\* gdf[mask]: a new frame holding the rows whose mask entry is true, in order
MaskSelect(g, mask) ==
    LET idx == SelectSeq([i \in 1..Len(g.rows) |-> i], LAMBDA i : mask[i])
    IN  [crs |-> g.crs, rows |-> [k \in 1..Len(idx) |-> g.rows[idx[k]]]]

\* QueryMask with the receiver and the argument of `contains` exchanged
QueryMaskContainsSwapped(g, target, op) ==
    [i \in 1..Len(g.rows) |->
        CASE op = "intersects" -> Intersects(g.rows[i].geometry, target)
          [] op = "within"     -> Within(g.rows[i].geometry, target)
          [] op = "contains"   -> Contains(target, g.rows[i].geometry)]

\* the mask each branch computes (lines 14-19)
QueryMask(g, target, op) ==
    [i \in 1..Len(g.rows) |->
        CASE op = "intersects" -> Intersects(g.rows[i].geometry, target)
          [] op = "within"     -> Within(g.rows[i].geometry, target)
          [] op = "contains"   -> Contains(g.rows[i].geometry, target)]

\* the whole call: the argument object after the call, and the outcome.
\* With no branch taken `mask` is unbound at line 20.
perform_spatial_query(g, target, op) ==
    IF op \in Predicates
    THEN [gdf |-> g, result |-> Return(MaskSelect(g, QueryMask(g, target, op)))]
    ELSE [gdf |-> g, result |-> Raise("UnboundLocalError", "mask")]

----------------------------------------------------------------------------
(* src/3.1_spatial_query_analysis.py: analyze_polygonal_overlap *)

\* Reprojection moves every coordinate; it is modelled as the translation
\* between the origins of the two reference systems (never the identity
\* between different systems).
Easting(crs) == IF crs = "EPSG:4326" THEN 0 ELSE 500

Reproject(geom, from, to) ==
    [geom EXCEPT !.x1 = @ - Easting(from) + Easting(to),
                 !.x2 = @ - Easting(from) + Easting(to)]

\* gdf.to_crs(crs): a new frame, the receiver is left alone
to_crs(g, crs) ==
    [crs |-> crs,
     rows |-> [i \in 1..Len(g.rows) |->
                 [g.rows[i] EXCEPT !.geometry = Reproject(@, g.crs, crs)]]]

\* sjoin keeping only the first intersecting right row of each left row
sjoin_first_match(left, right) ==
    LET n == Len(left.rows)
        m == Len(right.rows)
        hit(i, j) == Intersects(left.rows[i].geometry, right.rows[j].geometry)
        pairs == [k \in 1..(n * m) |-> <<((k - 1) \div m) + 1, ((k - 1) % m) + 1>>]
        hits == SelectSeq(pairs, LAMBDA p :
                    hit(p[1], p[2]) /\ \A j \in 1..(p[2] - 1) : ~hit(p[1], j))
    IN  [crs |-> left.crs,
         rows |-> [k \in 1..Len(hits) |->
                     [landuse_type  |-> left.rows[hits[k][1]].landuse_type,
                      area_ha       |-> left.rows[hits[k][1]].area_ha,
                      geometry      |-> left.rows[hits[k][1]].geometry,
                      index_right   |-> hits[k][2],
                      province_name |-> right.rows[hits[k][2]].province_name]]]

\* gpd.sjoin(left, right, how='inner', predicate='intersects'): one row per
\* (left row, right row) pair whose geometries intersect, carrying the left
\* row's columns and geometry and the right row's attributes
sjoin(left, right) ==
    LET n == Len(left.rows)
        m == Len(right.rows)
        pairs == [k \in 1..(n * m) |-> <<((k - 1) \div m) + 1, ((k - 1) % m) + 1>>]
        hits == SelectSeq(pairs, LAMBDA p :
                    Intersects(left.rows[p[1]].geometry, right.rows[p[2]].geometry))
    IN  [crs |-> left.crs,
         rows |-> [k \in 1..Len(hits) |->
                     [landuse_type  |-> left.rows[hits[k][1]].landuse_type,
                      area_ha       |-> left.rows[hits[k][1]].area_ha,
                      geometry      |-> left.rows[hits[k][1]].geometry,
                      index_right   |-> hits[k][2],
                      province_name |-> right.rows[hits[k][2]].province_name]]]

\* square metres per hectare (line 8)
HaDivisor == 10000

\* joined['area_ha'] = joined.geometry.area / 10000 (the areas of the model
\* are whole multiples of a hectare, so the quotient is exact)
SetAreaHa(g) ==
    [g EXCEPT !.rows = [i \in 1..Len(g.rows) |->
                          [g.rows[i] EXCEPT !.area_ha = Area(g.rows[i].geometry) \div HaDivisor]]]

RECURSIVE SumSeq(_)
SumSeq(s) == IF s = <<>> THEN 0 ELSE Head(s) + SumSeq(Tail(s))

\* the order groupby sorts the keys in
NameOrder == <<"DKI Jakarta", "Jawa Barat">>
TypeOrder == <<"Forest", "Urban">>

\* a groupby that emits every possible key, absent groups summing to 0
GroupBySumAllKeys(joined) ==
    LET nt == Len(TypeOrder)
        keys == [k \in 1..(Len(NameOrder) * nt) |->
                    <<NameOrder[((k - 1) \div nt) + 1], TypeOrder[((k - 1) % nt) + 1]>>]
        group(key) == SelectSeq(joined.rows, LAMBDA r :
                          r.province_name = key[1] /\ r.landuse_type = key[2])
    IN  [k \in 1..Len(keys) |->
            [province_name |-> keys[k][1],
             landuse_type  |-> keys[k][2],
             area_ha |-> SumSeq([j \in 1..Len(group(keys[k])) |-> group(keys[k])[j].area_ha])]]

\* joined.groupby(['province_name','landuse_type'])['area_ha'].sum().reset_index():
\* one row per key present in the frame, keys in sorted order
GroupBySum(joined) ==
    LET nt == Len(TypeOrder)
        keys == [k \in 1..(Len(NameOrder) * nt) |->
                    <<NameOrder[((k - 1) \div nt) + 1], TypeOrder[((k - 1) % nt) + 1]>>]
        group(key) == SelectSeq(joined.rows, LAMBDA r :
                          r.province_name = key[1] /\ r.landuse_type = key[2])
        present == SelectSeq(keys, LAMBDA key : group(key) # <<>>)
    IN  [k \in 1..Len(present) |->
            [province_name |-> present[k][1],
             landuse_type  |-> present[k][2],
             area_ha |-> SumSeq([j \in 1..Len(group(present[k])) |-> group(present[k])[j].area_ha])]]

\* analyze_polygonal_overlap working on the caller's frame: reprojected and
\* given the derived area column in place
analyze_polygonal_overlap_inplace(admin, land_use) ==
    LET local == SetAreaHa(to_crs(land_use, admin.crs))
    IN  [gdf_admin |-> admin, gdf_land_use |-> local,
         result |-> Return(GroupBySum(sjoin(local, admin)))]

\* the whole call: both argument objects after the call, and the outcome.
\* Line 4 rebinds the local name to the reprojected copy, and line 8 writes
\* the area column into the joined frame.
analyze_polygonal_overlap(admin, land_use) ==
    LET local == to_crs(land_use, admin.crs)
        joined == SetAreaHa(sjoin(local, admin))
    IN  [gdf_admin |-> admin, gdf_land_use |-> land_use,
         result |-> Return(GroupBySum(joined))]

----------------------------------------------------------------------------
(* src/3.2_map_service_compar.py: compare_with_google_maps *)

\* what requests.get(url).json() yields: the request fails, or the service
\* answers with a JSON body carrying a status
Responses ==
    {[kind |-> "ConnectionError", status |-> "", geometry |-> NoGeom]}
    \cup {[kind |-> "json", status |-> "OK", geometry |-> g] : g \in Geoms}
    \cup {[kind |-> "json", status |-> st, geometry |-> NoGeom] :
             st \in {"ZERO_RESULTS", "OVER_QUERY_LIMIT"}}

\* lines 12-14: intersection over union as the exact fraction num/den,
\* 0 (as 0/1) when the union has no area
IouScore(a, b) ==
    IF UnionArea(a, b) > 0
    THEN [num |-> IntersectionArea(a, b), den |-> UnionArea(a, b)]
    ELSE [num |-> 0, den |-> 1]

\* the whole call.  Line 7 raises when the request fails; the extraction of
\* google_geom is a comment (lines 8-10), so line 12 reads a name that was
\* never bound, whatever the service answered.
compare_with_google_maps(resp, geom) ==
    IF resp.kind = "ConnectionError"
    THEN Raise("ConnectionError", "request")
    ELSE Raise("NameError", "google_geom")

----------------------------------------------------------------------------
(* src/main_igt_spatial_pipeline.py: create_sample_data, main_execution_pipeline *)

\* a dict is a function from its keys; {} and None are both falsy at line 104
\* and are modelled by the empty dict
EmptyDict == [k \in {} |-> TRUE]

\* dict.update: top-level keys of u replace those of d
DictUpdate(d, u) ==
    [k \in (DOMAIN d) \cup (DOMAIN u) |-> IF k \in DOMAIN u THEN u[k] ELSE d[k]]

\* lines 87-101
default_config ==
    [database |-> [host |-> "localhost", port |-> 5432, database |-> "igt_db",
                   user |-> "postgres", password |-> "admin123"],
     use_sample_data |-> TRUE,
     analysis |-> [target_province |-> "JK", connection_radius_km |-> 100,
                   place_name |-> "Jakarta, Indonesia"]]

\* a merge that descends into the nested sections: keys of a default
\* section that the caller's section omits are kept
merge_config_deep(arg) ==
    [k \in (DOMAIN default_config) \cup (DOMAIN arg) |->
        IF k \notin DOMAIN arg THEN default_config[k]
        ELSE IF k \in {"database", "analysis"} THEN DictUpdate(default_config[k], arg[k])
        ELSE arg[k]]

\* lines 103-107
merge_config(arg) ==
    IF arg # EmptyDict THEN DictUpdate(default_config, arg) ELSE default_config

\* the configs a caller passes: any subset of the top-level keys of the
\* docstring (lines 66-83) and of the defaults, each section whole (as
\* __main__ builds it, lines 438-445) or partial
DataPathsArgs ==
    {[provinces |-> "data/BATAS_PROVINSI.shp", land_use |-> "data/LAND_USE.shp"]}
DatabaseArgs ==
    {[host |-> "db.internal", port |-> 5433, database |-> "igt_prod",
      user |-> "igt", password |-> "secret"],
     [host |-> "db.internal", database |-> "igt_prod"],
     [host |-> "db.internal"],
     [database |-> "igt_prod"]}
AnalysisArgs ==
    {[target_province |-> "JK", connection_radius_km |-> 150,
      place_name |-> "Jakarta, Indonesia"],
     [target_province |-> "JI", connection_radius_km |-> 150],
     [target_province |-> "JI"]}
ConfigArgs ==
    {DictUpdate(DictUpdate(DictUpdate(u, d), a), f) :
        u \in {EmptyDict} \cup {[use_sample_data |-> b] : b \in BOOLEAN},
        d \in {EmptyDict} \cup {[database |-> x] : x \in DatabaseArgs},
        a \in {EmptyDict} \cup {[analysis |-> x] : x \in AnalysisArgs},
        f \in {EmptyDict} \cup {[data_paths |-> x] : x \in DataPathsArgs}}

\* line 34
num_points == 50

\* create_sample_data (lines 15-57): the four province boxes, in tenths of
\* a degree, and num_points // 4 random points per province, of which only
\* the number is modelled
create_sample_data ==
    [provinces_gdf |->
        [crs |-> "EPSG:4326",
         rows |-> << [PROV_CODE |-> "JK", PROV_NAME |-> "DKI Jakarta", geometry |-> box(1065, -64, 1070, -61)],
                     [PROV_CODE |-> "JB", PROV_NAME |-> "Jawa Barat",  geometry |-> box(1070, -75, 1085, -61)],
                     [PROV_CODE |-> "JT", PROV_NAME |-> "Jawa Tengah", geometry |-> box(1090, -80, 1110, -65)],
                     [PROV_CODE |-> "JI", PROV_NAME |-> "Jawa Timur",  geometry |-> box(1110, -90, 1145, -68)] >>],
     land_use_len |-> 4 * (num_points \div 4)]

NoData == [provinces_gdf |-> NoGdf, land_use_len |-> 0]
NoExc == [type |-> "", arg |-> ""]

Info(text) == [level |-> "INFO", text |-> text, detail |-> ""]
\* line 356: the failure summary carries str(e)
FailureSummary(e) == [level |-> "ERROR", text |-> "Pipeline execution failed", detail |-> e.arg]

\* d[k] on a dict: KeyError(k) when the key is missing
KeyErrorIfMissing(d, k) == IF k \in DOMAIN d THEN NoExc ELSE [type |-> "KeyError", arg |-> k]
FirstExc(es) == IF \E i \in 1..Len(es) : es[i] # NoExc
                THEN es[CHOOSE i \in 1..Len(es) : es[i] # NoExc /\ \A j \in 1..(i - 1) : es[j] = NoExc]
                ELSE NoExc

\* the exception phase k raises under config cfg, NoExc when it completes:
\* line 138 in phase 1, the lookups of line 173 in phase 2 and of lines 269
\* and 292 in phase 5; phases 3, 4 and 6 only log
PhaseExc(k, cfg) ==
    CASE k = 1 -> IF cfg.use_sample_data THEN NoExc
                  ELSE [type |-> "ValueError",
                        arg |-> "Real data loading not configured. Set use_sample_data=True for demo."]
      [] k = 2 -> FirstExc(<<KeyErrorIfMissing(cfg.database, "database"),
                            KeyErrorIfMissing(cfg.database, "host")>>)
      [] k = 5 -> FirstExc(<<KeyErrorIfMissing(cfg.analysis, "connection_radius_km"),
                            KeyErrorIfMissing(cfg.analysis, "place_name")>>)
      [] OTHER -> NoExc

PhaseTitle(k) ==
    CASE k = 1 -> "[PHASE 1] Data Preparation"
      [] k = 2 -> "[PHASE 2] Spatial Database Operations"
      [] k = 3 -> "[PHASE 3] Spatial Analysis Operations"
      [] k = 4 -> "[PHASE 4] Map Service Comparison"
      [] k = 5 -> "[PHASE 5] Spatial-Graph Network Analysis"
      [] k = 6 -> "[PHASE 6] Visualization and Output"

PcOfPhase(k) ==
    CASE k = 1 -> "phase1" [] k = 2 -> "phase2" [] k = 3 -> "phase3"
      [] k = 4 -> "phase4" [] k = 5 -> "phase5" [] k = 6 -> "phase6"
      [] OTHER -> "complete"

\* a handler that raises a new error carrying the old message
reraise_wrapped(e) == Raise("RuntimeError", e.arg)

\* line 362: a bare raise re-raises the exception being handled
reraise(e) == Raise(e.type, e.arg)

\* lines 335-340
pipeline_output(d, cfg) ==
    [provinces_gdf |-> d.provinces_gdf, land_use_len |-> d.land_use_len,
     config |-> cfg, status |-> "success"]

----------------------------------------------------------------------------
(* src/main_igt_spatial_pipeline.py: run_spatial_analysis, run_specific_module *)

\* largest number of rows of gdf1 and of gdf2
MaxPairRows == 2

\* the geometries of gdf1 and gdf2: the two halves of the grid, which share
\* an edge, and the point on the far edge
PairGeoms == {box(0, 0, 500, 1000), box(500, 0, 1000, 1000), Point(1000, 500)}
PairLayers == [crs : {"EPSG:4326"}, rows : SeqsUpTo([geometry : PairGeoms], MaxPairRows)]

\* the keyword arguments of a run_spatial_analysis call: operation is optional
SpatialKwargs ==
    {[gdf1 |-> a, gdf2 |-> b] : a, b \in PairLayers}
    \cup {[gdf1 |-> a, gdf2 |-> b, operation |-> op] :
             a, b \in PairLayers, op \in {"intersects", "within", "union"}}

\* a counter that stops at the first geometry of gdf2 each geometry of gdf1
\* intersects
count_intersecting_rows(g1, g2) ==
    SumSeq([i \in 1..Len(g1.rows) |->
              IF \E j \in 1..Len(g2.rows) : Intersects(g1.rows[i].geometry, g2.rows[j].geometry)
              THEN 1 ELSE 0])

\* lines 401-405: the nested loops add one per (geom1, geom2) that intersect
count_intersections(g1, g2) ==
    SumSeq([i \in 1..Len(g1.rows) |->
              SumSeq([j \in 1..Len(g2.rows) |->
                        IF Intersects(g1.rows[i].geometry, g2.rows[j].geometry)
                        THEN 1 ELSE 0])])

\* binding **kwargs to the required parameters: TypeError for the first
\* one missing
MissingArg(kw, required) ==
    IF \E i \in 1..Len(required) : required[i] \notin DOMAIN kw
    THEN Raise("TypeError", required[CHOOSE i \in 1..Len(required) :
                                /\ required[i] \notin DOMAIN kw
                                /\ \A j \in 1..(i - 1) : required[j] \in DOMAIN kw])
    ELSE NoResult

\* run_spatial_analysis(gdf1, gdf2, operation='intersects', **kwargs), lines 393-408
run_spatial_analysis(kw) ==
    IF MissingArg(kw, <<"gdf1", "gdf2">>) # NoResult
    THEN [log |-> <<>>, result |-> MissingArg(kw, <<"gdf1", "gdf2">>)]
    ELSE LET op == IF "operation" \in DOMAIN kw THEN kw.operation ELSE "intersects"
         IN  [log |-> <<Info("Spatial analysis"), Info("Operation")>>,
              result |-> IF op = "intersects"
                         THEN Return([intersection_count |-> count_intersections(kw.gdf1, kw.gdf2)])
                         ELSE Return([status |-> "analysis_completed"])]

\* run_data_ingestion(data_path, layer_name=None, **kwargs), lines 379-391
run_data_ingestion(kw) ==
    IF MissingArg(kw, <<"data_path">>) # NoResult
    THEN [log |-> <<>>, result |-> MissingArg(kw, <<"data_path">>)]
    ELSE [log |-> <<Info("Creating sample Indonesian spatial data...")>>,
          result |-> Return(create_sample_data.provinces_gdf)]

\* the keys of module_executors, in order (lines 366-371)
module_executors ==
    <<"data_ingestion", "spatial_analysis", "network_analysis", "map_comparison">>

Executing(name) == [level |-> "INFO", text |-> "Executing module", detail |-> name]

\* run_specific_module(module_name, **kwargs), lines 364-377.  The lambdas of
\* network_analysis and map_comparison call run_network_analysis and
\* run_map_comparison, names the module never defines.
run_specific_module(name, kw) ==
    IF \E i \in 1..Len(module_executors) : module_executors[i] = name
    THEN LET h == CASE name = "data_ingestion"   -> run_data_ingestion(kw)
                    [] name = "spatial_analysis" -> run_spatial_analysis(kw)
                    [] name = "network_analysis" ->
                          [log |-> <<>>, result |-> Raise("NameError", "run_network_analysis")]
                    [] name = "map_comparison"   ->
                          [log |-> <<>>, result |-> Raise("NameError", "run_map_comparison")]
         IN  [log |-> <<Executing(name)>> \o h.log, result |-> h.result]
    ELSE [log |-> <<>>,
          result |-> Raise("ValueError", [module |-> name, available |-> module_executors])]

\* the names a caller dispatches on
ModuleNames ==
    {module_executors[i] : i \in 1..Len(module_executors)} \cup {"report_generation", "Network_Analysis"}

\* the keyword arguments of a run_specific_module call: none, those of
\* __main__ (lines 454-458), a data path, or a pair of one-row layers
ModuleKwargs ==
    {EmptyDict,
     [admin_gdf |-> create_sample_data.provinces_gdf, province_code |-> "JK"],
     [data_path |-> "data/BATAS_PROVINSI_2023.shp"],
     [data_path |-> "data.gpkg", layer_name |-> "PROVINSI"]}
    \cup {k \in SpatialKwargs : Len(k.gdf1.rows) = 1 /\ Len(k.gdf2.rows) = 1}

----------------------------------------------------------------------------
\* the calls of the analytic functions and of the pipeline, with their arguments
DirectCall ==
    \/ /\ fn = "perform_spatial_query"
       /\ gdf \in FeatureLayers
       /\ target_geometry \in Geoms
       /\ operation \in Operations
       /\ gdf_admin = NoGdf /\ gdf_land_use = NoGdf
       /\ your_data_geometry = NoGeom /\ response = NoResponse
       /\ config_arg = EmptyDict
    \/ /\ fn = "analyze_polygonal_overlap"
       /\ gdf_admin \in AdminLayers
       /\ gdf_land_use \in FeatureLayers
       /\ gdf = NoGdf /\ target_geometry = NoGeom /\ operation = "intersects"
       /\ your_data_geometry = NoGeom /\ response = NoResponse
       /\ config_arg = EmptyDict
    \/ /\ fn = "compare_with_google_maps"
       /\ your_data_geometry \in Geoms
       /\ response \in Responses
       /\ gdf = NoGdf /\ target_geometry = NoGeom /\ operation = "intersects"
       /\ gdf_admin = NoGdf /\ gdf_land_use = NoGdf
       /\ config_arg = EmptyDict
    \/ /\ fn = "main_execution_pipeline"
       /\ config_arg \in ConfigArgs
       /\ gdf = NoGdf /\ target_geometry = NoGeom /\ operation = "intersects"
       /\ gdf_admin = NoGdf /\ gdf_land_use = NoGdf
       /\ your_data_geometry = NoGeom /\ response = NoResponse

Init ==
    /\ pc = "start"
    /\ result = NoResult
    /\ config = EmptyDict /\ data = NoData /\ phases = <<>> /\ log = <<>> /\ exc = NoExc
    /\ \/ /\ fn \in {"run_specific_module", "run_spatial_analysis"}
          /\ gdf = NoGdf /\ target_geometry = NoGeom /\ operation = "intersects"
          /\ gdf_admin = NoGdf /\ gdf_land_use = NoGdf
          /\ your_data_geometry = NoGeom /\ response = NoResponse
          /\ config_arg = EmptyDict
          /\ \/ fn = "run_specific_module" /\ module_name \in ModuleNames /\ kwargs \in ModuleKwargs
             \/ fn = "run_spatial_analysis" /\ module_name = "" /\ kwargs \in SpatialKwargs
       \/ /\ module_name = "" /\ kwargs = EmptyDict
          /\ DirectCall

PerformSpatialQuery ==
    /\ fn = "perform_spatial_query" /\ pc = "start"
    /\ LET r == perform_spatial_query(gdf, target_geometry, operation)
       IN  /\ gdf' = r.gdf
           /\ result' = r.result
    /\ pc' = "done"
    /\ UNCHANGED <<fn, dispatch_vars, target_geometry, operation, gdf_admin, gdf_land_use,
                   your_data_geometry, response, pipeline_vars>>

AnalyzePolygonalOverlap ==
    /\ fn = "analyze_polygonal_overlap" /\ pc = "start"
    /\ LET r == analyze_polygonal_overlap(gdf_admin, gdf_land_use)
       IN  /\ gdf_admin' = r.gdf_admin
           /\ gdf_land_use' = r.gdf_land_use
           /\ result' = r.result
    /\ pc' = "done"
    /\ UNCHANGED <<fn, dispatch_vars, gdf, target_geometry, operation, your_data_geometry, response,
                   pipeline_vars>>

CompareWithGoogleMaps ==
    /\ fn = "compare_with_google_maps" /\ pc = "start"
    /\ result' = compare_with_google_maps(response, your_data_geometry)
    /\ pc' = "done"
    /\ UNCHANGED <<fn, dispatch_vars, analytic_vars, pipeline_vars>>

\* lines 86-111: merge the config, log the banner
MergeConfig ==
    /\ fn = "main_execution_pipeline" /\ pc = "start"
    /\ config' = merge_config(config_arg)
    /\ log' = Append(log, Info("STARTING INDONESIAN IGT SPATIAL-GRAPH PIPELINE"))
    /\ pc' = "phase1"
    /\ UNCHANGED <<fn, dispatch_vars, analytic_vars, config_arg, data, phases, exc, result>>

\* one phase of the try block: its header is logged, then it completes and
\* control falls into the next phase, or it raises and control enters the
\* except clause
RunPhase(k) ==
    /\ fn = "main_execution_pipeline" /\ pc = PcOfPhase(k)
    /\ phases' = Append(phases, k)
    /\ log' = Append(log, Info(PhaseTitle(k)))
    /\ exc' = PhaseExc(k, config)
    /\ pc' = IF PhaseExc(k, config) = NoExc THEN PcOfPhase(k + 1) ELSE "except"
    /\ data' = IF k = 1 /\ PhaseExc(k, config) = NoExc THEN create_sample_data ELSE data
    /\ UNCHANGED <<fn, dispatch_vars, analytic_vars, config_arg, config, result>>

Phase1 ==
    /\ pc = "phase1"
    /\ RunPhase(1)

Phase2 ==
    /\ pc = "phase2"
    /\ RunPhase(2)

Phase3 ==
    /\ pc = "phase3"
    /\ RunPhase(3)

Phase4 ==
    /\ pc = "phase4"
    /\ RunPhase(4)

Phase5 ==
    /\ pc = "phase5"
    /\ RunPhase(5)

Phase6 ==
    /\ pc = "phase6"
    /\ RunPhase(6)


\* lines 330-353
PipelineCompletion ==
    /\ fn = "main_execution_pipeline" /\ pc = "complete"
    /\ log' = Append(log, Info("PIPELINE EXECUTION COMPLETED SUCCESSFULLY"))
    /\ result' = Return(pipeline_output(data, config))
    /\ pc' = "returned"
    /\ UNCHANGED <<fn, dispatch_vars, analytic_vars, config_arg, config, data, phases, exc>>

\* lines 355-362
ExceptHandler ==
    /\ fn = "main_execution_pipeline" /\ pc = "except"
    /\ log' = Append(log, FailureSummary(exc))
    /\ result' = reraise(exc)
    /\ pc' = "raised"
    /\ UNCHANGED <<fn, dispatch_vars, analytic_vars, config_arg, config, data, phases, exc>>

RunSpatialAnalysis ==
    /\ fn = "run_spatial_analysis" /\ pc = "start"
    /\ log' = log \o run_spatial_analysis(kwargs).log
    /\ result' = run_spatial_analysis(kwargs).result
    /\ pc' = "done"
    /\ UNCHANGED <<fn, dispatch_vars, analytic_vars, config_arg, config, data, phases, exc>>

RunSpecificModule ==
    /\ fn = "run_specific_module" /\ pc = "start"
    /\ log' = log \o run_specific_module(module_name, kwargs).log
    /\ result' = run_specific_module(module_name, kwargs).result
    /\ pc' = "done"
    /\ UNCHANGED <<fn, dispatch_vars, analytic_vars, config_arg, config, data, phases, exc>>

Next ==
    \/ PerformSpatialQuery
    \/ AnalyzePolygonalOverlap
    \/ CompareWithGoogleMaps
    \/ MergeConfig
    \/ Phase1
    \/ Phase2
    \/ Phase3
    \/ Phase4
    \/ Phase5
    \/ Phase6
    \/ PipelineCompletion
    \/ ExceptHandler
    \/ RunSpatialAnalysis
    \/ RunSpecificModule

Spec == Init /\ [][Next]_vars

----------------------------------------------------------------------------
(* Properties *)

QueryDone == fn = "perform_spatial_query" /\ pc = "done"
OverlapDone == fn = "analyze_polygonal_overlap" /\ pc = "done"
CompareDone == fn = "compare_with_google_maps" /\ pc = "done"

\* C1: for every selector outside {intersects, within, contains} the query
\* fails with an invalid-argument error (ValueError) that names the selector,
\* and returns nothing.
C1_InvalidSelectorNamed ==
    (QueryDone /\ operation \notin Predicates) =>
        /\ result.kind = "raise"
        /\ result.error.type = "ValueError"
        /\ result.error.arg = operation

\* the chosen predicate between a record's geometry and the target
Holds(op, geom, target) ==
    \/ op = "intersects" /\ Intersects(geom, target)
    \/ op = "within" /\ Within(geom, target)
    \/ op = "contains" /\ Within(target, geom)

RECURSIVE Satisfying(_, _, _)
Satisfying(rows, op, target) ==
    IF rows = <<>> THEN <<>>
    ELSE IF Holds(op, Head(rows).geometry, target)
         THEN <<Head(rows)>> \o Satisfying(Tail(rows), op, target)
         ELSE Satisfying(Tail(rows), op, target)

\* the closed shape a lies inside the closed shape b
CoveredBy(a, b) == b.x1 <= a.x1 /\ a.x2 <= b.x2 /\ b.y1 <= a.y1 /\ a.y2 <= b.y2

\* C2: with a selector in {intersects, within, contains} the query returns
\* exactly the records whose geometry satisfies the predicate against the
\* target, in their original order; with 'intersects' and a target polygon
\* covering every input geometry it returns the whole input.
C2_QueryReturnsSatisfyingSubsequence ==
    (QueryDone /\ operation \in Predicates) =>
        /\ result.kind = "return"
        /\ result.value.rows = Satisfying(gdf.rows, operation, target_geometry)
        /\ (/\ operation = "intersects"
            /\ target_geometry.type = "Polygon"
            /\ \A i \in 1..Len(gdf.rows) : CoveredBy(gdf.rows[i].geometry, target_geometry))
           => result.value.rows = gdf.rows

\* a 'contains' query that keeps some records and drops others
C2_Witness ==
    /\ QueryDone /\ operation = "contains"
    /\ result.kind = "return"
    /\ Len(gdf.rows) = 2
    /\ Len(result.value.rows) = 1
    /\ result.value.rows[1] = gdf.rows[2]

\* feature i of the land-use layer, in the reference system of the regions
FeatureGeom(i) == Reproject(gdf_land_use.rows[i].geometry, gdf_land_use.crs, gdf_admin.crs)

\* the (feature, region) pairs whose geometries intersect
Matches ==
    {p \in (1..Len(gdf_land_use.rows)) \X (1..Len(gdf_admin.rows)) :
        Intersects(FeatureGeom(p[1]), gdf_admin.rows[p[2]].geometry)}

KeyOfMatch(p) == <<gdf_admin.rows[p[2]].province_name, gdf_land_use.rows[p[1]].landuse_type>>
KeyOfRow(r) == <<r.province_name, r.landuse_type>>

FeatureHa(i) == Area(FeatureGeom(i)) \div HaDivisor

RECURSIVE SumHa(_)
SumHa(ps) ==
    IF ps = {} THEN 0
    ELSE LET p == CHOOSE q \in ps : TRUE IN FeatureHa(p[1]) + SumHa(ps \ {p})

C4_RowValues ==
    /\ (/\ OverlapDone
        /\ Len(gdf_admin.rows) = 1 /\ Len(gdf_land_use.rows) = 2
        /\ \A i \in 1..2 : /\ gdf_land_use.rows[i].landuse_type = "Forest"
                           /\ CoveredBy(FeatureGeom(i), gdf_admin.rows[1].geometry)
        /\ FeatureHa(1) = 100 /\ FeatureHa(2) = 50)
       => result = Return(<<[province_name |-> gdf_admin.rows[1].province_name,
                             landuse_type |-> "Forest", area_ha |-> 150]>>)
    /\ (/\ OverlapDone
        /\ Len(gdf_admin.rows) = 1 /\ Len(gdf_land_use.rows) = 1
        /\ gdf_land_use.rows[1].geometry.type = "Point"
        /\ Within(FeatureGeom(1), gdf_admin.rows[1].geometry))
       => result = Return(<<[province_name |-> gdf_admin.rows[1].province_name,
                             landuse_type |-> gdf_land_use.rows[1].landuse_type,
                             area_ha |-> gdf_land_use.rows[1].area_ha]>>)

ResolvedOK == response.kind = "json" /\ response.status = "OK"

\* C6: for A and the resolved reference geometry B the scorer returns
\* (score, B) with score = area(A and B)/area(A or B), 0 when the union has no
\* area; the score lies in [0,1] and the call does not fail.
C6_ScoreIsIoU ==
    (CompareDone /\ ResolvedOK) =>
        /\ result.kind = "return"
        /\ result.value = <<IouScore(your_data_geometry, response.geometry), response.geometry>>
        /\ 0 <= result.value[1].num /\ result.value[1].num <= result.value[1].den

\* C7: the score is 1 when B equals A and A has area, and 0 when A and B
\* share no area and one of them has area.
C7_ScoreBoundaries ==
    (CompareDone /\ ResolvedOK) =>
        /\ (response.geometry = your_data_geometry /\ Area(your_data_geometry) > 0)
              => (result.kind = "return" /\ result.value[1].num = result.value[1].den)
        /\ (/\ IntersectionArea(your_data_geometry, response.geometry) = 0
            /\ (Area(your_data_geometry) > 0 \/ Area(response.geometry) > 0))
              => (result.kind = "return" /\ result.value[1].num = 0)

\* the failures of the geocoding lookup: no connection, no match, quota
FetchFailed ==
    \/ response.kind = "ConnectionError"
    \/ response.kind = "json" /\ response.status \in {"ZERO_RESULTS", "OVER_QUERY_LIMIT"}
FetchErrorTypes == {"ConnectionError", "Timeout", "HTTPError", "FetchError"}

\* C8: when the geocoding lookup fails the scorer raises that fetch error:
\* it returns no score and raises no error of another kind.
C8_FetchErrorPropagates ==
    (CompareDone /\ FetchFailed) =>
        /\ result.kind = "raise"
        /\ result.error.type \in FetchErrorTypes

PipelineRaised == fn = "main_execution_pipeline" /\ pc = "raised"

\* C9: when a phase fails, the pipeline has entered the phases up to the
\* failing one once each and none after it, has logged one failure summary
\* carrying the error's message as its last record, raises exactly the error
\* the phase raised (a ValueError from phase 1 when use_sample_data is
\* false), and returns no output.
C9_FailureLoggedAndReraised ==
    /\ PipelineRaised =>
        LET k == phases[Len(phases)] IN
        /\ phases = [i \in 1..k |-> i]
        /\ PhaseExc(k, config) # NoExc
        /\ result.kind = "raise"
        /\ result.error = PhaseExc(k, config)
        /\ (~config.use_sample_data) => (k = 1 /\ result.error.type = "ValueError")
        /\ log[Len(log)] = [level |-> "ERROR", text |-> "Pipeline execution failed",
                            detail |-> PhaseExc(k, config).arg]
        /\ \A i \in 1..(Len(log) - 1) : log[i].level = "INFO"
    /\ (fn = "main_execution_pipeline" /\ result.kind = "return") =>
        (pc = "returned" /\ exc = NoExc /\ phases = <<1, 2, 3, 4, 5, 6>>)

\* use_sample_data false: phase 1 raised ValueError and the caller sees it
C9_Witness ==
    /\ PipelineRaised
    /\ ~config.use_sample_data
    /\ phases = <<1>>
    /\ result.kind = "raise" /\ result.error.type = "ValueError"

\* C10: neither analytic operation changes its input collections: the
\* caller's gdf, gdf_admin and gdf_land_use are the same after the call.
C10_InputsNotMutated ==
    [][gdf' = gdf /\ gdf_admin' = gdf_admin /\ gdf_land_use' = gdf_land_use]_vars

\* an overlap call that reprojected its features and derived an area that
\* differs from the features' own area column
C10_Witness ==
    /\ OverlapDone /\ result.kind = "return"
    /\ gdf_land_use.crs # gdf_admin.crs
    /\ \E k \in 1..Len(result.value) :
          \A i \in 1..Len(gdf_land_use.rows) : result.value[k].area_ha # gdf_land_use.rows[i].area_ha

PipelineMerged == fn = "main_execution_pipeline" /\ pc # "start"

\* c is the defaults with every top-level key of the caller's config put in
\* place of the default of that key, whole
IsShallowMerge(c) ==
    /\ DOMAIN c = (DOMAIN default_config) \cup (DOMAIN config_arg)
    /\ \A k \in DOMAIN config_arg : c[k] = config_arg[k]
    /\ \A k \in (DOMAIN default_config) \ (DOMAIN config_arg) : c[k] = default_config[k]

\* C12: the config the pipeline works with is the shallow top-level merge of
\* the caller's config into the defaults (a supplied section replaces the
\* default section whole, an omitted key keeps its default), and on success
\* that config is returned under 'config'.
C12_ShallowConfigMerge ==
    /\ PipelineMerged => IsShallowMerge(config)
    /\ (fn = "main_execution_pipeline" /\ pc = "returned") =>
          (result.kind = "return" /\ IsShallowMerge(result.value.config))

\* a successful run whose caller gave a database section without a port: the
\* returned section has no port, the omitted analysis section is the default
C12_Witness ==
    /\ fn = "main_execution_pipeline" /\ pc = "returned"
    /\ "database" \in DOMAIN config_arg /\ "analysis" \notin DOMAIN config_arg
    /\ "port" \notin DOMAIN result.value.config.database
    /\ result.value.config.analysis = default_config.analysis

ModuleDone == fn = "run_specific_module" /\ pc = "done"
ModuleTable == {"data_ingestion", "spatial_analysis", "network_analysis", "map_comparison"}

\* C11: for every name of the table {data_ingestion, spatial_analysis,
\* network_analysis, map_comparison} the call runs that module's handler on
\* the keyword arguments and gives its result (the documented call
\* network_analysis with admin_gdf and province_code returns a result); for
\* every other name it raises ValueError naming the module and the table.
C11_DispatchByName ==
    ModuleDone =>
        /\ module_name = "data_ingestion" => result = run_data_ingestion(kwargs).result
        /\ module_name = "spatial_analysis" => result = run_spatial_analysis(kwargs).result
        /\ module_name \in {"network_analysis", "map_comparison"} =>
              ~(result.kind = "raise" /\ result.error.type = "NameError")
        /\ (/\ module_name = "network_analysis"
            /\ kwargs = [admin_gdf |-> create_sample_data.provinces_gdf, province_code |-> "JK"])
              => result.kind = "return"
        /\ module_name \notin ModuleTable =>
              /\ result.kind = "raise"
              /\ result.error.type = "ValueError"
              /\ result.error.arg.module = module_name
              /\ {result.error.arg.available[i] : i \in 1..Len(result.error.arg.available)} = ModuleTable
              /\ log = <<>>

SpatialDone == fn = "run_spatial_analysis" /\ pc = "done"
SpatialOperation == IF "operation" \in DOMAIN kwargs THEN kwargs.operation ELSE "intersects"

\* the (row of gdf1, row of gdf2) pairs whose geometries intersect
IntersectingPairs ==
    {p \in (1..Len(kwargs.gdf1.rows)) \X (1..Len(kwargs.gdf2.rows)) :
        Intersects(kwargs.gdf1.rows[p[1]].geometry, kwargs.gdf2.rows[p[2]].geometry)}

\* C13: with operation 'intersects' (the default) the call returns
\* {'intersection_count': n}, n the number of ordered pairs (g1, g2) that
\* intersect, so 0 <= n <= len(gdf1)*len(gdf2) and n = 0 when a collection is
\* empty; with any other operation it returns {'status': 'analysis_completed'}.
C13_IntersectionCount ==
    SpatialDone =>
        /\ result.kind = "return"
        /\ SpatialOperation = "intersects" =>
              /\ result.value = [intersection_count |-> Cardinality(IntersectingPairs)]
              /\ 0 <= result.value.intersection_count
              /\ result.value.intersection_count <= Len(kwargs.gdf1.rows) * Len(kwargs.gdf2.rows)
              /\ (kwargs.gdf1.rows = <<>> \/ kwargs.gdf2.rows = <<>>)
                    => result.value.intersection_count = 0
        /\ SpatialOperation # "intersects" => result.value = [status |-> "analysis_completed"]

\* two rows against two rows: one geometry of gdf1 intersects both of gdf2,
\* the other only one, so three pairs are counted
C13_Witness ==
    /\ SpatialDone /\ SpatialOperation = "intersects"
    /\ Len(kwargs.gdf1.rows) = 2 /\ Len(kwargs.gdf2.rows) = 2
    /\ <<1, 1>> \in IntersectingPairs /\ <<1, 2>> \in IntersectingPairs
    /\ result = Return([intersection_count |-> 3])
====
